---------------------------- MODULE Spec2Model ----------------------------
(***************************************************************************)
(* A model of prototype_20220329: the character classifier and Sentence    *)
(* container (datatypes.py), the n-gram CharType models (ngram.py) and the *)
(* greedy generation loop of LanguageGenerator (language_generator.py).    *)
(*                                                                         *)
(* Conventions.                                                            *)
(*  - A Python attribute that may be None is a sequence: <<>> is None and  *)
(*    <<v>> holds v.                                                       *)
(*  - Positions, cursors and char_id are 0-based as in the code; At(s, p)  *)
(*    reads position p of a Python list kept as a TLA+ sequence.           *)
(*  - A probability is an exact fraction [num, den].                       *)
(*  - math.log is a fixed-point natural logarithm: integers in units of    *)
(*    1e-6, additive over prime factors, so that products that are equal   *)
(*    as real numbers have equal logarithms.  A log-score is the pair      *)
(*    (main, eps): main in units of 1e-7 and eps, the first-order effect   *)
(*    of E inside log(p + E), in units of 1e-10.                           *)
(*  - round() is exact round-half-to-even of the fraction; the float       *)
(*    product len * ratio of the code agrees with it for every sentence    *)
(*    shorter than 22 positions.                                           *)
(***************************************************************************)
EXTENDS Integers, Sequences, FiniteSets, TLC

VARIABLES
    pc,            \* "new", "ready", "emitting", "done", "error", "building"
    err,           \* the exception that ended fit or generate ("" if none)
    sentences,     \* self.sentences
    curr_ids,      \* self.curr_ids
    num_used,      \* self.num_used
    num_left,      \* self.num_left
    ngram_models,  \* self.ngram_models (the members' dist tables)
    thresh_symbol, \* self.thresh_symbol
    dist_pos,      \* self.dist_pos
    output,        \* generate's local Sentence `output`
    sent_id,       \* generate's local sent_id of the last selection
    char_id,       \* generate's local char_id of the last selection
    result,        \* the string generate returned
    passed,        \* history: the (source, position) pairs seen at or behind a cursor
    emitted,       \* history: the (source, position) pairs selected so far
    chars          \* Sentence.chars of the free-standing container

vars == <<pc, err, sentences, curr_ids, num_used, num_left, ngram_models,
          thresh_symbol, dist_pos, output, sent_id, char_id, result,
          passed, emitted, chars>>

None == <<>>
Some(v) == <<v>>

At(seq, p) == seq[p + 1]

-----------------------------------------------------------------------------
(* Bounds of the model.                                                    *)

\* the most source sentences of a corpus
MaxSources == 2
\* the most content characters of a corpus, all sentences together
MaxTotal == 4
\* the most characters of a sentence that a corpus holds twice
MaxTwin == 3
\* the content length of the long sentence of a corpus
LongLen == 15
\* the most units appended to the free-standing Sentence container
MaxAppend == 2

-----------------------------------------------------------------------------
(* datatypes.py                                                            *)

BOS == "<BOS>"
EOS == "<EOS>"

CharType == {"BOS", "EOS", "CONSONANT", "VOWEL", "SYMBOL"}

\* data/vowels.txt, one letter per line
VOWELS == {"a", "e", "i", "o", "u"}

\* The characters the model draws text from, named in ASCII: e_acute is
\* U+00E9, sharp_s is U+00DF, bei is U+5317.
Alphabet == {"a", "b", " "}
Units == Alphabet \cup {"E", "T", ",", "e_acute", "sharp_s", "bei", BOS, EOS}

\* unidecode.unidecode on one unit: its ASCII transliteration, a sequence of
\* ASCII characters.
unidecode(char) ==
    CASE char = "e_acute" -> <<"e">>
      [] char = "sharp_s" -> <<"s", "s">>
      [] char = "bei"     -> <<"B", "e", "i", " ">>
      [] char = BOS       -> <<"<", "B", "O", "S", ">">>
      [] char = EOS       -> <<"<", "E", "O", "S", ">">>
      [] OTHER            -> <<char>>

AsciiOf(token) == unidecode(token)

LowerLetters == {"a", "b", "e", "i", "o", "s", "u"}
UpperLetters == {"B", "E", "O", "S", "T"}

\* str.isalpha on one ASCII character
IsLetter(c) == c \in LowerLetters \cup UpperLetters

\* str.lower on one ASCII character
lower(c) ==
    CASE c = "B" -> "b"
      [] c = "E" -> "e"
      [] c = "O" -> "o"
      [] c = "S" -> "s"
      [] c = "T" -> "t"
      [] OTHER   -> c

\* str.isalpha: non-empty and every character alphabetic
isalpha(ascii) ==
    /\ Len(ascii) > 0
    /\ \A i \in 1..Len(ascii) : IsLetter(ascii[i])

\* Char.__post_init__: the chartype of a unit
CharTypeOf(char) ==
    LET ascii_ == unidecode(char) IN
    IF ascii_ = AsciiOf(BOS) THEN "BOS"
    ELSE IF ascii_ = AsciiOf(EOS) THEN "EOS"
    ELSE IF ~isalpha(ascii_) THEN "SYMBOL"
    ELSE IF lower(ascii_[Len(ascii_)]) \in VOWELS THEN "VOWEL"
    ELSE "CONSONANT"

\* Char(char)
Char(char) == [char |-> char, chartype |-> CharTypeOf(char)]

\* Sentence.append: a str is classified, a Char is kept as it is
SentenceAppend(cs, unit) == Append(cs, Char(unit))

\* Sentence.extend
RECURSIVE SentenceExtend(_, _)
SentenceExtend(cs, units) ==
    IF units = <<>> THEN cs
    ELSE SentenceExtend(SentenceAppend(cs, Head(units)), Tail(units))

Repeat(x, n) == [i \in 1..n |-> x]

\* Sentence(sentence, add_bos, add_eos) on a str
NewSentence(sentence, add_bos, add_eos) ==
    SentenceExtend(SentenceExtend(SentenceExtend(<<>>, Repeat(BOS, add_bos)),
                                  sentence),
                   Repeat(EOS, add_eos))

\* Sentence(sentence, add_bos, add_eos) on a Sentence: iterating it yields its
\* Chars, which append keeps as they are
WrapSentence(cs, add_bos, add_eos) ==
    SentenceExtend(SentenceExtend(<<>>, Repeat(BOS, add_bos)) \o cs,
                   Repeat(EOS, add_eos))

\* Sentence.get_chars
get_chars(cs) == SelectSeq(cs, LAMBDA c : c.chartype \notin {"BOS", "EOS"})

\* Sentence.get_num_chars
get_num_chars(cs) == Len(get_chars(cs))

-----------------------------------------------------------------------------
(* ngram.py.  The nested dicts keyed by successive CharTypes are functions *)
(* of the whole tuple.                                                     *)

Tuples(n) == [1..n -> CharType]

RECURSIVE SumOver(_, _)
SumOver(f, S) ==
    IF S = {} THEN 0
    ELSE LET x == CHOOSE y \in S : TRUE IN f[x] + SumOver(f, S \ {x})

\* NgramCharTypeModel._init_model: every tuple seeded with 1
InitModelSeed == 1
\* variant of _init_model whose table starts at 0
init_model_unseeded(ngram) == [t \in Tuples(ngram) |-> 0]
init_model(ngram) == [t \in Tuples(ngram) |-> InitModelSeed]

\* recursive_add(count_dict, chartypes[i:i + ngram], 1)
recursive_add(count_dict, keys, value) ==
    [count_dict EXCEPT ![keys] = @ + value]

\* the inner loop of _count_chartypes: the windows i, i+1, ... of one sentence
RECURSIVE CountWindows(_, _, _, _)
CountWindows(count_dict, chartypes, i, ngram) ==
    IF i >= Len(chartypes) - ngram + 1 THEN count_dict
    ELSE CountWindows(
             recursive_add(count_dict, SubSeq(chartypes, i + 1, i + ngram), 1),
             chartypes, i + 1, ngram)

\* NgramCharTypeModel._count_chartypes
RECURSIVE count_chartypes(_, _, _)
count_chartypes(count_dict, sents, ngram) ==
    IF sents = <<>> THEN count_dict
    ELSE LET sentence == Head(sents)
             chartypes == [i \in 1..Len(sentence) |-> sentence[i].chartype]
         IN count_chartypes(CountWindows(count_dict, chartypes, 0, ngram),
                            Tail(sents), ngram)

\* chartype2prob of _convert_count_to_prob: count / total
ChartypeToProb(chartype2count, total) ==
    [c \in CharType |-> [num |-> chartype2count[c], den |-> total]]

\* NgramCharTypeModel._convert_count_to_prob
convert_count_to_prob(count_dict, ngram) ==
    [prod \in Tuples(ngram - 1) |->
        ChartypeToProb([c \in CharType |-> count_dict[Append(prod, c)]],
                       SumOver([c \in CharType |-> count_dict[Append(prod, c)]],
                               CharType))]

\* the count table NgramCharTypeModel.fit builds
CountTable(ngram, sentences_) ==
    LET sents == [s \in 1..Len(sentences_) |->
                     WrapSentence(sentences_[s], ngram - 1, 1)]
    IN count_chartypes(init_model(ngram), sents, ngram)

\* NgramCharTypeModel.fit: the model's dist
NgramFit(ngram, sentences_) ==
    convert_count_to_prob(CountTable(ngram, sentences_), ngram)

\* NgramCharTypeModel.get_dist
NgramGetDist(model, cs) ==
    model.dist[[i \in 1..Len(cs) |-> cs[i].chartype]]

\* NgramCharTypeModels(ngrams=[2, 3])
NGRAMS == <<2, 3>>

\* NgramCharTypeModels.fit
ModelsFit(sentences_) ==
    [k \in 1..Len(NGRAMS) |->
        [ngram |-> NGRAMS[k], dist |-> NgramFit(NGRAMS[k], sentences_)]]

\* chars[1 - ngram:]
LastN(cs, n) == SubSeq(cs, Len(cs) - n + 1, Len(cs))

\* a / b + c / d and (a / b) / n on fractions
FracAdd(x, y) == [num |-> x.num * y.den + y.num * x.den, den |-> x.den * y.den]
FracDiv(x, n) == [num |-> x.num, den |-> x.den * n]

\* the unweighted mean, per chartype, of two member distributions
MeanDist(dist1, dist2, n) ==
    [c \in CharType |-> FracDiv(FracAdd(dist1[c], dist2[c]), n)]

\* NgramCharTypeModels.get_dist: the mean of the members' distributions
ModelsGetDist(models, cs) ==
    MeanDist(NgramGetDist(models[1], LastN(cs, models[1].ngram - 1)),
             NgramGetDist(models[2], LastN(cs, models[2].ngram - 1)),
             Len(models))

-----------------------------------------------------------------------------
(* math.log, math.inf and scipy.stats.norm.pdf in fixed point.             *)

Max(a, b) == IF a > b THEN a ELSE b
Min(a, b) == IF a < b THEN a ELSE b

RECURSIVE SumSeq(_)
SumSeq(xs) == IF xs = <<>> THEN 0 ELSE Head(xs) + SumSeq(Tail(xs))

RECURSIVE MaxSeq(_)
MaxSeq(xs) == IF Len(xs) = 1 THEN xs[1] ELSE Max(Head(xs), MaxSeq(Tail(xs)))

\* 1e8 * (1/(j*pw) + 1/((j+2)*pw*m^2) + ...): with pw = m and j = 1 it is
\* 1e8 * atanh(1/m)
RECURSIVE AtanhInvSum(_, _, _)
AtanhInvSum(m, pw, j) ==
    (10^8 \div (j * pw))
    + (IF pw > 10^8 \div (m * m) THEN 0 ELSE AtanhInvSum(m, pw * m * m, j + 2))

RECURSIVE SmallestFactor(_, _)
SmallestFactor(n, d) ==
    IF d * d > n THEN n
    ELSE IF n % d = 0 THEN d
    ELSE SmallestFactor(n, d + 1)

\* 1e8 * ln(n): the sum over the prime factors of n, and for a prime
\* ln(n) = ln(n - 1) + 2 * atanh(1 / (2n - 1))
RECURSIVE Ln8(_)
Ln8(n) ==
    IF n = 1 THEN 0
    ELSE LET p == SmallestFactor(n, 2) IN
         IF p < n THEN Ln8(p) + Ln8(n \div p)
         ELSE Ln8(n - 1) + 2 * AtanhInvSum(2 * n - 1, 2 * n - 1, 1)

\* 1e6 * ln(n), each prime's logarithm rounded once
RECURSIVE Ln6(_)
Ln6(n) ==
    IF n = 1 THEN 0
    ELSE LET p == SmallestFactor(n, 2) IN
         IF p < n THEN Ln6(p) + Ln6(n \div p)
         ELSE (Ln8(n) + 50) \div 100

\* Ln6 on the arguments met most often, computed once
LnTable == [n \in 1..1024 |-> Ln6(n)]

Log6(n) == IF n <= 1024 THEN LnTable[n] ELSE Ln6(n)

\* E = 1e-7: 1e6 * ln(E)
LnE6 == -16118096

\* a fraction with a positive denominator
Norm(p) == IF p.den < 0 THEN [num |-> -p.num, den |-> -p.den] ELSE p

\* math.log(p + E) of a fraction p >= 0: main in units of 1e-6 and the
\* first-order term E / p in units of 1e-10
LogPlusE(p) ==
    IF p.num = 0 THEN [main |-> LnE6, eps |-> 0]
    ELSE [main |-> Log6(p.num) - Log6(p.den),
          eps  |-> (1000 * p.den) \div p.num]

\* math.log raises ValueError ("math domain error") at p + E <= 0
LogFails(p) == Norm(p).num < 0

\* norm.pdf(d, loc=0, scale=NORM_SCALE) for d = 0, 1, ..., in units of 1e-10
NormPdf ==
    <<1994711402, 1760326634, 1209853623, 647587978, 269954833, 87641502,
      22159242, 4363413, 669151, 79919, 7434, 538, 30, 1, 0, 0, 0, 0, 0, 0,
      0, 0, 0, 0, 0, 0>>

\* math.log(norm.pdf(d, loc=0, scale=NORM_SCALE) + E), in units of 1e-7
LogNormPdfPlusE ==
    <<-16120852, -17370851, -21120849, -27370842, -36120820, -47370743,
      -61120406, -77368566, -96105924, -117246506, -139858722, -156872955,
      -160881686, -161167618, -161180500, -161180944, -161180956, -161180957,
      -161180957, -161180957, -161180957, -161180957, -161180957, -161180957,
      -161180957, -161180957>>

\* A log-score: -inf, or main (1e-7) and eps (1e-10)
NegInf == [inf |-> TRUE, main |-> 0, eps |-> 0]
Finite(main, eps) == [inf |-> FALSE, main |-> main, eps |-> eps]

\* scores[sent_id][i + curr_id] += score
ScoreAdd(a, score) ==
    IF a.inf THEN NegInf
    ELSE Finite(a.main + score.main, a.eps + score.eps)

\* score > max_score: the sign of 1000 * (a.main - b.main) + (a.eps - b.eps)
ScoreGt(a, b) ==
    IF a.inf THEN FALSE
    ELSE IF b.inf THEN TRUE
    ELSE LET d == a.main - b.main
             e == a.eps - b.eps
         IN IF d > 1000000 THEN TRUE
            ELSE IF d < -1000000 THEN FALSE
            ELSE 1000 * d + e > 0

-----------------------------------------------------------------------------
(* language_generator.py                                                   *)

\* SYMBOL_MAGNIFICATION = 3.0
SYMBOL_MAGNIFICATION == 3
\* the weights as multiples of 0.1: DIST_POS_RATIO = 1.0,
\* DIST_CHARTYPE_RATIO = 1.0, DIST_USED_RATIO = 0.1, DIST_LEFT_RATIO = 1.0
DIST_POS_RATIO == 10
DIST_CHARTYPE_RATIO == 10
DIST_USED_RATIO == 1
DIST_LEFT_RATIO == 10
\* fit's add_bos=2, add_eos=1 and its first cursor
FIT_ADD_BOS == 2
FIT_ADD_EOS == 1
FIRST_CURR_ID == 1

Sources == 0..(Len(sentences[1]) - 1)
Sent(s) == At(sentences[1], s)
Positions(s) == 0..(Len(Sent(s)) - 1)

\* LanguageGenerator._calc_symbol_threshold: the two operands of its division
SymbolThresholdOperands(sents) ==
    LET num_chars == SumSeq([s \in 1..Len(sents) |-> get_num_chars(sents[s])])
        num_symbols ==
            SumSeq([s \in 1..Len(sents) |->
                       Len(SelectSeq(sents[s],
                                     LAMBDA c : c.chartype = "SYMBOL"))])
    IN [num |-> num_chars, den |-> num_symbols]

\* LanguageGenerator._init_scores
init_scores ==
    [s \in Sources |->
        [i \in Positions(s) |->
            IF i <= At(curr_ids[1], s) THEN NegInf ELSE Finite(0, 0)]]

\* the loop of _calc_symbol_magnification: the characters after the last
\* SYMBOL or EOS of the output
RECURSIVE SymbolGap(_)
SymbolGap(out) ==
    IF out = <<>> THEN 0
    ELSE IF out[Len(out)].chartype \in {"SYMBOL", "EOS"} THEN 0
    ELSE 1 + SymbolGap(SubSeq(out, 1, Len(out) - 1))

\* LanguageGenerator._calc_symbol_magnification:
\* length > num_chars / num_symbols
calc_symbol_magnification(out) ==
    IF SymbolGap(out) * thresh_symbol[1].den > thresh_symbol[1].num
    THEN SYMBOL_MAGNIFICATION ELSE 1

\* LanguageGenerator._get_chartype_dist
get_chartype_dist(out) ==
    [ModelsGetDist(ngram_models[1], LastN(out, 2))
        EXCEPT !["SYMBOL"].num = @ * calc_symbol_magnification(out)]

\* inv_num_used and dist_used of _update_scores
InvNumUsed(used, max_used) == [k \in 1..Len(used) |-> max_used + 1 - used[k]]
DistOf(nums, total) == [s \in Sources |-> [num |-> At(nums, s), den |-> total]]
DistUsed ==
    DistOf(InvNumUsed(num_used[1], MaxSeq(num_used[1])),
           SumSeq(InvNumUsed(num_used[1], MaxSeq(num_used[1]))))

\* dist_left of _update_scores; SumSeq(num_left[1]) = 0 is its
\* ZeroDivisionError
NormAll(dist) == [s \in Sources |-> Norm(dist[s])]
DistLeft == NormAll(DistOf(num_left[1], SumSeq(num_left[1])))

\* sentence[curr_id:] starts here (a negative curr_id counts from the end)
SliceStart(curr_id, length) ==
    IF curr_id < 0 THEN Max(length + curr_id, 0) ELSE Min(curr_id, length)

\* score of _update_scores from its four logarithms: the position's in units
\* of 1e-7, the others as LogPlusE gives them
WeightedScore(pos, ct, du, dl) ==
    Finite(pos * (DIST_POS_RATIO \div 10)
             + ct.main * DIST_CHARTYPE_RATIO
             + du.main * DIST_USED_RATIO
             + dl.main * DIST_LEFT_RATIO,
           (ct.eps * DIST_CHARTYPE_RATIO) \div 10
             + (du.eps * DIST_USED_RATIO) \div 10
             + (dl.eps * DIST_LEFT_RATIO) \div 10)

\* the score _update_scores adds for the character at position i of source s
ScoreTerm(s, i, dist_chartype, dist_used, dist_left) ==
    WeightedScore(
        LogNormPdfPlusE[i - SliceStart(At(curr_ids[1], s), Len(Sent(s))) + 1],
        LogPlusE(dist_chartype[At(Sent(s), i).chartype]),
        LogPlusE(dist_used[s]),
        LogPlusE(dist_left[s]))

\* the exception _update_scores raises, "" if none
UpdateScoresError ==
    IF SumSeq(num_left[1]) = 0 THEN "ZeroDivisionError"
    ELSE IF \E s \in Sources : LogFails(DistLeft[s]) THEN "ValueError"
    ELSE ""

\* the loops of _update_scores
AddScores(scores, dist_chartype, dist_used, dist_left) ==
    [s \in Sources |->
        [i \in Positions(s) |->
            IF i >= SliceStart(At(curr_ids[1], s), Len(Sent(s)))
            THEN ScoreAdd(scores[s][i],
                          ScoreTerm(s, i, dist_chartype, dist_used, dist_left))
            ELSE scores[s][i]]]

\* LanguageGenerator._update_scores: the scores after it
update_scores(scores, out) ==
    AddScores(scores, get_chartype_dist(out), DistUsed, DistLeft)

\* the body of the loops of _extract_next_char_index: best is
\* (sent_id, char_id, max_score)
\* variant of the scan that keeps the last maximum (>= for >)
ScanStepLastMax(best, i, j, score) ==
    IF ~ScoreGt(best.max_score, score)
    THEN [sent_id |-> i, char_id |-> j, max_score |-> score]
    ELSE best

ScanStep(best, i, j, score) ==
    IF ScoreGt(score, best.max_score)
    THEN [sent_id |-> i, char_id |-> j, max_score |-> score]
    ELSE best

\* the loops of _extract_next_char_index from source i, position j on
RECURSIVE ScanScores(_, _, _, _)
ScanScores(scores, i, j, best) ==
    IF i >= Len(sentences[1]) THEN best
    ELSE IF j >= Len(Sent(i)) THEN ScanScores(scores, i + 1, 0, best)
    ELSE ScanScores(scores, i, j + 1, ScanStep(best, i, j, scores[i][j]))

\* LanguageGenerator._extract_next_char_index
extract_next_char_index(scores) ==
    ScanScores(scores, 0, 0,
               [sent_id |-> 0, char_id |-> 0, max_score |-> NegInf])

\* round(): half to even, of the fraction n / d with d > 0
RoundHalfEven(n, d) ==
    IF 2 * (n % d) < d THEN n \div d
    ELSE IF 2 * (n % d) > d THEN (n \div d) + 1
    ELSE IF (n \div d) % 2 = 0 THEN n \div d ELSE (n \div d) + 1

\* round(len(sentence) * ratio) - 1 with ratio = (char_id + 1) / len(chosen)
NextCurrId(length, cid, chosen_length) ==
    RoundHalfEven(length * (cid + 1), chosen_length) - 1

\* the text of the corpora: every list of at most MaxSources strings over
\* Alphabet with at most MaxTotal characters in all, every list of the same
\* string of at most MaxTwin characters twice, and one list of an empty
\* string and a string of LongLen characters
Strs(n) == UNION {[1..k -> Alphabet] : k \in 0..n}

RECURSIVE CorporaOf(_, _)
CorporaOf(k, t) ==
    IF k = 0 THEN {<<>>}
    ELSE UNION {{<<str>> \o c : c \in CorporaOf(k - 1, t - Len(str))} :
                   str \in Strs(t)}

LongSentence(n) ==
    [i \in 1..n |-> IF i = 1 THEN " " ELSE IF i % 2 = 0 THEN "a" ELSE "b"]

Corpora ==
    UNION {CorporaOf(k, MaxTotal) : k \in 0..MaxSources}
    \cup {<<str, str>> : str \in Strs(MaxTwin)}
    \cup {<< <<>>, LongSentence(LongLen) >>}

-----------------------------------------------------------------------------
(* The engine.                                                             *)

\* LanguageGenerator.__init__
Init ==
    /\ pc = "new"
    /\ err = ""
    /\ sentences = None
    /\ curr_ids = None
    /\ num_used = None
    /\ num_left = None
    /\ ngram_models = None
    /\ thresh_symbol = None
    /\ dist_pos = None
    /\ output = None
    /\ sent_id = None
    /\ char_id = None
    /\ result = None
    /\ passed = {}
    /\ emitted = {}
    /\ chars = <<>>

\* the pairs at or behind the cursors cs of the sentences sents
Behind(sents, cs) ==
    {<<s, i>> \in (0..(Len(sents) - 1)) \X (0..MaxSeq(<<0>> \o [k \in 1..Len(sents) |-> Len(sents[k])])) :
        i < Len(At(sents, s)) /\ i <= At(cs, s)}

\* LanguageGenerator.fit
Fit(corpus) ==
    /\ pc = "new"
    /\ LET sents == [s \in 1..Len(corpus) |->
                        NewSentence(corpus[s], FIT_ADD_BOS, FIT_ADD_EOS)]
           cursors == [s \in 1..Len(corpus) |-> FIRST_CURR_ID]
           thresh == SymbolThresholdOperands(sents)
       IN /\ sentences' = Some(sents)
          /\ curr_ids' = Some(cursors)
          /\ num_used' = Some([s \in 1..Len(corpus) |-> 0])
          /\ num_left' = Some([s \in 1..Len(corpus) |-> get_num_chars(sents[s])])
          /\ ngram_models' = Some(ModelsFit(sents))
          /\ passed' = Behind(sents, cursors)
          /\ IF thresh.den = 0
             THEN /\ pc' = "error"
                  /\ err' = "ZeroDivisionError"
                  /\ UNCHANGED <<thresh_symbol, dist_pos>>
             ELSE /\ pc' = "ready"
                  /\ err' = ""
                  /\ thresh_symbol' = Some(thresh)
                  /\ dist_pos' =
                        Some(SubSeq(NormPdf, 1,
                                    MaxSeq([s \in 1..Len(sents) |-> Len(sents[s])])))
    /\ UNCHANGED <<output, sent_id, char_id, result, emitted, chars>>

\* LanguageGenerator.generate up to its loop: output = Sentence('', add_bos=2)
\* variant of generate that returns the empty string when nothing was fitted
GenerateSilent ==
    /\ pc \in {"new", "ready"}
    /\ output' = Some(NewSentence(<<>>, 2, 0))
    /\ IF sentences = None
       THEN pc' = "done" /\ result' = Some(<<>>)
       ELSE pc' = "emitting" /\ result' = result
    /\ UNCHANGED <<err, sentences, curr_ids, num_used, num_left, ngram_models,
                   thresh_symbol, dist_pos, sent_id, char_id, passed,
                   emitted, chars>>

Generate ==
    /\ pc \in {"new", "ready"}
    /\ output' = Some(NewSentence(<<>>, 2, 0))
    /\ pc' = "emitting"
    /\ UNCHANGED <<err, sentences, curr_ids, num_used, num_left, ngram_models,
                   thresh_symbol, dist_pos, sent_id, char_id, result, passed,
                   emitted, chars>>

\* _init_scores on an engine that was never fitted: iterating self.sentences,
\* which is None, raises TypeError
InitScoresError == IF sentences = None THEN "TypeError" ELSE ""

\* one iteration of the loop of generate that ends in an exception
EmitFails ==
    /\ pc = "emitting"
    /\ output[1][Len(output[1])].chartype # "EOS"
    /\ LET e == IF InitScoresError # "" THEN InitScoresError
                ELSE UpdateScoresError
       IN /\ e # ""
          /\ err' = e
    /\ pc' = "error"
    /\ UNCHANGED <<sentences, curr_ids, num_used, num_left, ngram_models,
                   thresh_symbol, dist_pos, output, sent_id, char_id, result,
                   passed, emitted, chars>>

\* the body of the loop of generate after the selection of (sid, cid)
\* variant of the emission that leaves num_left as it is
EmitCharKeepLeft(sid, cid) ==
    /\ output' = Some(Append(output[1], At(Sent(sid), cid)))
    /\ sent_id' = Some(sid)
    /\ char_id' = Some(cid)
    /\ num_used' = Some([num_used[1] EXCEPT ![sid + 1] = @ + 1])
    /\ num_left' = num_left
    /\ curr_ids' = Some([k \in 1..Len(sentences[1]) |->
                            NextCurrId(Len(sentences[1][k]), cid,
                                       Len(Sent(sid)))])
    /\ passed' = passed \cup Behind(sentences[1], curr_ids'[1])
    /\ emitted' = emitted \cup {<<sid, cid>>}

EmitChar(sid, cid) ==
    /\ output' = Some(Append(output[1], At(Sent(sid), cid)))
    /\ sent_id' = Some(sid)
    /\ char_id' = Some(cid)
    /\ num_used' = Some([num_used[1] EXCEPT ![sid + 1] = @ + 1])
    /\ num_left' = Some([num_left[1] EXCEPT ![sid + 1] = @ - 1])
    /\ curr_ids' = Some([k \in 1..Len(sentences[1]) |->
                            NextCurrId(Len(sentences[1][k]), cid,
                                       Len(Sent(sid)))])
    /\ passed' = passed \cup Behind(sentences[1], curr_ids'[1])
    /\ emitted' = emitted \cup {<<sid, cid>>}

EmitBest(best) == EmitChar(best.sent_id, best.char_id)

\* one iteration of the loop of generate
Emit ==
    /\ pc = "emitting"
    /\ output[1][Len(output[1])].chartype # "EOS"
    /\ InitScoresError = ""
    /\ UpdateScoresError = ""
    /\ EmitBest(extract_next_char_index(update_scores(init_scores, output[1])))
    /\ UNCHANGED <<pc, err, sentences, ngram_models, thresh_symbol, dist_pos,
                   result, chars>>

\* the return of generate: ''.join([char.char for char in output.get_chars()])
Return ==
    /\ pc = "emitting"
    /\ output[1][Len(output[1])].chartype = "EOS"
    /\ result' = Some([i \in 1..Len(get_chars(output[1])) |->
                          get_chars(output[1])[i].char])
    /\ pc' = "done"
    /\ UNCHANGED <<err, sentences, curr_ids, num_used, num_left, ngram_models,
                   thresh_symbol, dist_pos, output, sent_id, char_id, passed,
                   emitted, chars>>

\* a call of fit on some corpus
FitCall ==
    /\ pc = "new"
    /\ \E corpus \in Corpora : Fit(corpus)

Next ==
    \/ FitCall
    \/ Generate
    \/ EmitFails
    \/ Emit
    \/ Return

Spec == Init /\ [][Next]_vars

-----------------------------------------------------------------------------
(* The Sentence container on its own: units appended one at a time.        *)

InitSentence ==
    /\ pc = "building"
    /\ err = ""
    /\ sentences = None
    /\ curr_ids = None
    /\ num_used = None
    /\ num_left = None
    /\ ngram_models = None
    /\ thresh_symbol = None
    /\ dist_pos = None
    /\ output = None
    /\ sent_id = None
    /\ char_id = None
    /\ result = None
    /\ passed = {}
    /\ emitted = {}
    /\ chars = <<>>

\* Sentence.append(unit) on a str
AppendUnit(unit) ==
    /\ pc = "building"
    /\ Len(chars) < MaxAppend
    /\ chars' = SentenceAppend(chars, unit)
    /\ UNCHANGED <<pc, err, sentences, curr_ids, num_used, num_left,
                   ngram_models, thresh_symbol, dist_pos, output, sent_id,
                   char_id, result, passed, emitted>>

NextSentence == \E unit \in Units : AppendUnit(unit)

SpecSentence == InitSentence /\ [][NextSentence]_vars

-----------------------------------------------------------------------------
(* Properties.                                                             *)

Fitted == thresh_symbol # None
Emitting == output # None /\ output' # output
NumSources == Len(sentences[1])
ContentTypes == {"CONSONANT", "VOWEL", "SYMBOL"}

\* C1: after a fit that succeeded, generate never ends in an exception, and
\* when it is done the last character of the output is an EOS and the
\* returned string holds no marker token.
C1_GenerateNeverFails ==
    Fitted =>
        /\ pc # "error"
        /\ pc = "done" =>
              /\ output[1][Len(output[1])].chartype = "EOS"
              /\ \A i \in 1..Len(result[1]) : result[1][i] \notin {BOS, EOS}

\* C2: no iteration of generate moves the cursor of a source backwards.
C2_CursorsNeverRewind ==
    [][(curr_ids # None /\ Emitting) =>
           \A k \in 1..Len(curr_ids[1]) : curr_ids'[1][k] >= curr_ids[1][k]]_vars

\* C3: fit on a non-empty corpus without any SYMBOL character does not fail.
C3_FitWithoutSymbolSucceeds ==
    (/\ sentences # None
     /\ NumSources >= 1
     /\ \A k \in 1..NumSources :
           \A i \in 1..Len(sentences[1][k]) :
              sentences[1][k][i].chartype # "SYMBOL")
    => pc # "error"

Twins == sentences # None /\ NumSources = 2 /\ sentences[1][1] = sentences[1][2]

\* C4: with two identical sources the emitted-counts never differ by more
\* than 1, and every selection goes to the source used less, or to the first
\* source when both were used equally.
C4_TwinsAlternate ==
    /\ [](Twins =>
            /\ num_used[1][1] - num_used[1][2] <= 1
            /\ num_used[1][2] - num_used[1][1] <= 1)
    /\ [][(Twins /\ Emitting) =>
             sent_id'[1] = (IF num_used[1][1] <= num_used[1][2] THEN 0 ELSE 1)]_vars

C4_Witness ==
    /\ Twins
    /\ pc = "done"
    /\ num_used[1] = <<2, 2>>

\* the windows of width n of source k as NgramCharTypeModel.fit counts them
PaddedTypes(cs, n) ==
    Repeat("BOS", n - 1) \o [i \in 1..Len(cs) |-> cs[i].chartype] \o <<"EOS">>
WindowsOf(t, n, types) ==
    Cardinality({i \in 1..(Len(types) - n + 1) : SubSeq(types, i, i + n - 1) = t})
Observed(t, n) ==
    SumSeq([k \in 1..NumSources |->
               WindowsOf(t, n, PaddedTypes(sentences[1][k], n))])

\* C5: after fit, for each order n the count of every tuple of n chartypes is
\* 1 plus its observed windows, and for every context the distribution is
\* count / total: all 5 entries are positive and they sum to 1.
C5_NgramDistributions ==
    (ngram_models # None /\ output = None) =>
        \A m \in 1..Len(NGRAMS) :
            LET n == NGRAMS[m]
                dist == ngram_models[1][m].dist
            IN \A ctx \in Tuples(n - 1) :
                  /\ \A c \in CharType :
                        /\ dist[ctx][c].num = 1 + Observed(Append(ctx, c), n)
                        /\ dist[ctx][c].num >= 1
                        /\ dist[ctx][c].den = dist[ctx]["BOS"].den
                  /\ SumOver([c \in CharType |-> dist[ctx][c].num], CharType)
                        = dist[ctx]["BOS"].den

C5_Witness ==
    /\ ngram_models # None
    /\ output = None
    /\ ngram_models[1][1].dist[<<"VOWEL">>]["CONSONANT"].num = 3
    /\ ngram_models[1][2].dist[<<"BOS", "BOS">>]["BOS"].num = 5

\* the rule C6 states, on a transliteration
RECURSIVE LastLetter(_)
LastLetter(ascii) ==
    IF IsLetter(ascii[Len(ascii)]) THEN ascii[Len(ascii)]
    ELSE LastLetter(SubSeq(ascii, 1, Len(ascii) - 1))
ReferenceType(ascii) ==
    IF ascii = AsciiOf(BOS) THEN "BOS"
    ELSE IF ascii = AsciiOf(EOS) THEN "EOS"
    ELSE IF \A i \in 1..Len(ascii) : ~IsLetter(ascii[i]) THEN "SYMBOL"
    ELSE IF lower(LastLetter(ascii)) \in VOWELS THEN "VOWEL"
    ELSE "CONSONANT"

\* C6: every unit of a Sentence has the chartype the reference rule gives its
\* transliteration: SYMBOL if and only if it has no alphabetic character,
\* otherwise VOWEL or CONSONANT by its last alphabetic character.
C6_ClassifyIsReference ==
    \A i \in 1..Len(chars) :
        chars[i].chartype = ReferenceType(unidecode(chars[i].char))

\* C7: generate on an engine that was never fitted ends in an exception
\* before any character is emitted, and leaves the session state unset.
C7_UnfittedGenerateFails ==
    (sentences = None /\ output # None) =>
        /\ pc \in {"emitting", "error"}
        /\ pc = "error" => err = "TypeError"
        /\ pc = "emitting" => (ENABLED EmitFails /\ ~ENABLED Return)
        /\ Len(output[1]) = 2
        /\ curr_ids = None /\ num_used = None /\ num_left = None
        /\ sent_id = None /\ char_id = None /\ emitted = {}

C7_Witness ==
    /\ sentences = None
    /\ output # None
    /\ pc = "error"

\* C8: a selected position is beyond the cursor of its source, was never at
\* or behind a cursor before, and was never selected before.
C8_NoPassedPositionSelected ==
    [][(curr_ids # None /\ Emitting) =>
           /\ char_id'[1] > At(curr_ids[1], sent_id'[1])
           /\ <<sent_id'[1], char_id'[1]>> \notin passed
           /\ <<sent_id'[1], char_id'[1]>> \notin emitted]_vars

\* C9: the output is 2 BOS, then content characters, then at most one EOS as
\* its last element.
C9_OutputShape ==
    output # None =>
        /\ Len(output[1]) >= 2
        /\ output[1][1].chartype = "BOS"
        /\ output[1][2].chartype = "BOS"
        /\ \A i \in 3..Len(output[1]) :
              \/ output[1][i].chartype \in ContentTypes
              \/ (i = Len(output[1]) /\ output[1][i].chartype = "EOS")

\* C10: for every source emitted-count + remaining-count is its content
\* length, the emitted-counts sum to the characters appended to the output,
\* and an emission changes the two counters of the chosen source only.
C10_CountersBalance ==
    /\ [](sentences # None =>
            /\ \A k \in 1..NumSources :
                  num_used[1][k] + num_left[1][k]
                      = get_num_chars(sentences[1][k])
            /\ SumSeq(num_used[1])
                  = (IF output = None THEN 0 ELSE Len(output[1]) - 2))
    /\ [][(curr_ids # None /\ Emitting) =>
             \A k \in 1..NumSources :
                IF k = sent_id'[1] + 1
                THEN /\ num_used'[1][k] = num_used[1][k] + 1
                     /\ num_left'[1][k] = num_left[1][k] - 1
                ELSE /\ num_used'[1][k] = num_used[1][k]
                     /\ num_left'[1][k] = num_left[1][k]]_vars

C10_Witness ==
    /\ sentences # None
    /\ NumSources = 2
    /\ num_used[1][1] >= 1
    /\ num_used[1][2] >= 2
    /\ num_left[1][1] >= 1

=============================================================================
